---------------------------- MODULE Spec2Model ----------------------------
(***************************************************************************)
(* A model of the pwn3 intercepting proxy (src/tools/proxy).               *)
(*                                                                         *)
(*   parser.py   the packet decoder: byte-level handlers, the dispatch     *)
(*               table and the parse loop, as operators over sequences of  *)
(*               bytes (0..255).                                           *)
(*   proxy.py    ProxyConnection (one thread per connection: open, the     *)
(*               run loop, send, receive, stop) and ProxyServer (the       *)
(*               per-port supervisor loop), as a state machine whose       *)
(*               steps are the statements at which another thread can      *)
(*               observe or change shared state.                           *)
(*   helpers.py  MASTER_PORT, GAME_PORT_RANGE, ConnectionType and the      *)
(*               process-wide PACKET_QUEUE.                                *)
(***************************************************************************)
EXTENDS Integers, Sequences, FiniteSets, TLC

(***************************************************************************)
(* helpers.py                                                              *)
(***************************************************************************)
MASTER_PORT == 3333

\* The first port of GAME_PORT_RANGE = range(3000, 3005).
GAME_PORT == 3000

CLIENT == "CLIENT"

SERVER == "SERVER"

ConnectionType == {CLIENT, SERVER}

(***************************************************************************)
(* Bytes, slices and the struct / codec conversions parser.py uses.        *)
(***************************************************************************)
Min(a, b) == IF a <= b THEN a ELSE b

\* Python's data[a:b] for 0 <= a <= b: out-of-range ends are clamped.
Slice(data, a, b) ==
    IF a >= Min(b, Len(data)) THEN << >> ELSE SubSeq(data, a + 1, Min(b, Len(data)))

\* Python's data[a:].
SliceFrom(data, a) == Slice(data, a, Len(data))

\* struct.unpack of an unsigned little-endian field ('H', 'I'): the value of
\* the bytes, least significant first.
RECURSIVE LittleEndian(_)
LittleEndian(bytes) ==
    IF bytes = << >> THEN 0 ELSE Head(bytes) + 256 * LittleEndian(Tail(bytes))

\* struct.unpack raises struct.error unless the buffer has exactly the size
\* of the format.  The value is that of a single unsigned field ('B', 'H',
\* 'I'); the fields of the longer formats ('fff', ...) are only printed and
\* their value is left out.
unpack(size, bytes) ==
    IF Len(bytes) = size
    THEN [raised |-> FALSE,
          value |-> IF size <= 4 THEN LittleEndian(bytes) ELSE 0]
    ELSE [raised |-> TRUE, value |-> 0]

\* struct.pack of an unsigned value into n bytes, least significant first
\* ('=HI' on the little-endian hosts the game runs on).
RECURSIVE pack_le(_, _)
pack_le(n, value) ==
    IF n = 0 THEN << >> ELSE << value % 256 >> \o pack_le(n - 1, value \div 256)

\* struct.pack('>H', value): two bytes, most significant first.
pack_be_H(value) == << (value \div 256) % 256, value % 256 >>

IsCont(b) == b >= 128 /\ b <= 191

\* bytes.decode('utf-8'): the code points of a well-formed UTF-8 buffer;
\* UnicodeDecodeError on a stray continuation byte, a truncated sequence, an
\* overlong form, a surrogate or a value above U+10FFFF.
RECURSIVE decode(_)
decode(bytes) ==
    IF bytes = << >> THEN [raised |-> FALSE, str |-> << >>]
    ELSE LET b0 == bytes[1]
             n  == Len(bytes)
             need == IF b0 <= 127 THEN 1
                     ELSE IF b0 >= 194 /\ b0 <= 223 THEN 2
                     ELSE IF b0 >= 224 /\ b0 <= 239 THEN 3
                     ELSE IF b0 >= 240 /\ b0 <= 244 THEN 4
                     ELSE 0
             wellFormed ==
                 /\ need > 0
                 /\ n >= need
                 /\ \A i \in 2..need : IsCont(bytes[i])
                 /\ (b0 = 224 => bytes[2] >= 160)
                 /\ (b0 = 237 => bytes[2] <= 159)
                 /\ (b0 = 240 => bytes[2] >= 144)
                 /\ (b0 = 244 => bytes[2] <= 143)
             point ==
                 IF need = 1 THEN b0
                 ELSE IF need = 2 THEN (b0 - 192) * 64 + (bytes[2] - 128)
                 ELSE IF need = 3
                      THEN (b0 - 224) * 4096 + (bytes[2] - 128) * 64 + (bytes[3] - 128)
                 ELSE (b0 - 240) * 262144 + (bytes[2] - 128) * 4096
                      + (bytes[3] - 128) * 64 + (bytes[4] - 128)
         IN  IF ~wellFormed THEN [raised |-> TRUE, str |-> << >>]
             ELSE LET rest == decode(SliceFrom(bytes, need))
                  IN  IF rest.raised THEN rest
                      ELSE [raised |-> FALSE, str |-> << point >> \o rest.str]

\* Python's `sub in s` on strings.
Contains(s, sub) ==
    \E i \in 0..(Len(s) - Len(sub)) : Slice(s, i, i + Len(sub)) = sub

\* The code points of "Drop".
DropStr == << 68, 114, 111, 112 >>

(***************************************************************************)
(* parser.py: the handlers.  A handler gets the buffer after its 2-byte    *)
(* tag and yields                                                          *)
(*   raised  whether it raised an exception,                               *)
(*   data    the buffer left for the next iteration of parse,              *)
(*   put     the packets it put on helpers.PACKET_QUEUE.                   *)
(* The message a handler builds is printed only and is left out, but the   *)
(* conversions that build it are kept where they can raise.                *)
(***************************************************************************)
Raise == [raised |-> TRUE, data |-> << >>, put |-> << >>]

Return(rest) == [raised |-> FALSE, data |-> rest, put |-> << >>]

ReturnPut(rest, packet) == [raised |-> FALSE, data |-> rest, put |-> << packet >>]

\* A faulty handle_ack that returns the buffer with the tag in front (C24
\* detects it).
handle_ack_with_tag(data) == Return(<< 0, 0 >> \o data)

handle_ack(data) == Return(data)

\* A faulty handle_position that takes the three floats only (C13 detects
\* it).
handle_position_floats_only(data) ==
    IF unpack(12, Slice(data, 0, 12)).raised THEN Raise
    ELSE Return(SliceFrom(data, 12))

handle_position(data) ==
    IF unpack(12, Slice(data, 0, 12)).raised THEN Raise
    ELSE Return(SliceFrom(data, 20))

handle_jump(data) ==
    IF unpack(1, Slice(data, 0, 1)).raised THEN Raise
    ELSE Return(SliceFrom(data, 1))

handle_sneak(data) ==
    IF unpack(1, Slice(data, 0, 1)).raised THEN Raise
    ELSE Return(SliceFrom(data, 1))

handle_slot_select(data) ==
    IF unpack(1, Slice(data, 0, 1)).raised THEN Raise
    ELSE Return(SliceFrom(data, 1))

handle_shoot(data) ==
    LET length == unpack(2, Slice(data, 0, 2))
    IN  IF length.raised THEN Raise
        ELSE LET n == length.value
                 name == Slice(data, 2, n + 2)
                 direction == unpack(12, Slice(data, n + 2, n + 2 + 12))
             IN  IF direction.raised \/ decode(name).raised THEN Raise
                 ELSE Return(SliceFrom(data, 2 + n))

handle_chat(data) ==
    LET length == unpack(2, Slice(data, 0, 2))
    IN  IF length.raised THEN Raise
        ELSE LET n == length.value
             IN  IF decode(Slice(data, 2, 2 + n)).raised THEN Raise
                 ELSE Return(SliceFrom(data, 2 + n))

\* A faulty pickup packet with the item id most significant byte first (C10
\* detects it).
PickupPacket_big_endian(item_id) ==
    pack_be_H(25957) \o pack_be_H(item_id \div 65536) \o pack_be_H(item_id % 65536)

\* The pickup packet handle_actor_drop builds: struct.pack('=HI', 0x6565, item_id).
PickupPacket(item_id) == pack_le(2, 25957) \o pack_le(4, item_id)

handle_actor_drop(data) ==
    LET item_id == unpack(4, Slice(data, 0, 4))
        unknown == unpack(4, Slice(data, 4, 8))
        item_name_length == unpack(2, Slice(data, 9, 11))
    IN  IF \/ item_id.raised
           \/ unknown.raised
           \/ Len(data) <= 9            \* unknown2 = data[9]: IndexError
           \/ item_name_length.raised
        THEN Raise
        ELSE LET n == item_name_length.value
                 item_name == decode(Slice(data, 11, 11 + n))
                 xyz == unpack(12, Slice(data, 11 + n, 11 + n + 12))
                 rest == SliceFrom(data, 11 + n + 12)
             IN  IF item_name.raised \/ xyz.raised THEN Raise
                 ELSE IF Contains(item_name.str, DropStr)
                      THEN ReturnPut(rest, PickupPacket(item_id.value))
                      ELSE Return(rest)

handle_region_change(data) ==
    LET length == unpack(2, Slice(data, 0, 2))
    IN  IF length.raised THEN Raise
        ELSE LET n == length.value
             IN  IF decode(Slice(data, 2, 2 + n)).raised THEN Raise
                 ELSE Return(SliceFrom(data, 2 + n))

handle_item_acquire(data) ==
    LET length == unpack(2, Slice(data, 0, 2))
    IN  IF length.raised THEN Raise
        ELSE LET n == length.value
                 amount == unpack(4, Slice(data, 2 + n, 2 + n + 4))
             IN  IF decode(Slice(data, 2, 2 + n)).raised \/ amount.raised THEN Raise
                 ELSE Return(SliceFrom(data, 2 + n + 4))

handle_item_pickup(data) ==
    IF unpack(4, Slice(data, 0, 4)).raised THEN Raise
    ELSE Return(SliceFrom(data, 4))

\* struct.error propagates; UnicodeDecodeError is caught and the buffer is
\* returned as it was passed in.
handle_reload(data) ==
    LET wlen == unpack(2, Slice(data, 0, 2))
    IN  IF wlen.raised THEN Raise
        ELSE LET w == wlen.value
             IN  IF decode(Slice(data, 2, 2 + w)).raised THEN Return(data)
                 ELSE LET alen == unpack(2, Slice(data, 2 + w, 2 + w + 2))
                      IN  IF alen.raised THEN Raise
                          ELSE LET a == alen.value
                                   count == unpack(4, Slice(data, 2 + w + 2 + a,
                                                            2 + w + 2 + a + 4))
                               IN  IF decode(Slice(data, 2 + w + 2, 2 + w + 2 + a)).raised
                                   THEN Return(data)
                                   ELSE IF count.raised THEN Raise
                                   ELSE Return(SliceFrom(data, 2 + w + 2 + a + 4))

handle_health(data) ==
    IF unpack(6, Slice(data, 0, 6)).raised THEN Raise
    ELSE Return(SliceFrom(data, 6))

handle_mana(data) ==
    IF unpack(2, Slice(data, 0, 2)).raised THEN Raise
    ELSE Return(SliceFrom(data, 2))

handle_ps(data) == Return(SliceFrom(data, 28))

handle_state(data) ==
    LET head == unpack(6, Slice(data, 0, 6))
    IN  IF head.raised THEN Raise
        ELSE LET n == LittleEndian(Slice(data, 4, 6))
             IN  IF decode(Slice(data, 6, 6 + n)).raised THEN Raise
                 ELSE Return(SliceFrom(data, 6 + n))

handle_attack(data) ==
    LET head == unpack(6, Slice(data, 0, 6))
    IN  IF head.raised THEN Raise
        ELSE LET n == LittleEndian(Slice(data, 4, 6))
                 victim_id == unpack(4, Slice(data, 6 + n, 6 + n + 4))
             IN  IF decode(Slice(data, 6, 6 + n)).raised \/ victim_id.raised THEN Raise
                 ELSE Return(SliceFrom(data, 6 + n + 4))

\* A faulty reload packet with the opcode least significant byte first (C11
\* detects it).
ReloadPacket_little_endian == pack_le(2, 29292)

\* The reload packet handle_loaded_ammo builds: struct.pack('>H', 0x726c).
ReloadPacket == pack_be_H(29292)

handle_loaded_ammo(data) ==
    LET length == unpack(2, Slice(data, 0, 2))
    IN  IF length.raised THEN Raise
        ELSE LET n == length.value
                 weapon_name == decode(Slice(data, 2, 2 + n))
                 loaded_ammo == unpack(4, Slice(data, 2 + n, 2 + n + 4))
                 rest == SliceFrom(data, 2 + n + 4)
             IN  IF weapon_name.raised \/ loaded_ammo.raised THEN Raise
                 ELSE IF loaded_ammo.value = 0 THEN ReturnPut(rest, ReloadPacket)
                 ELSE Return(rest)


(***************************************************************************)
(* parser.py: the dispatch table and the parse loop.                       *)
(***************************************************************************)
TAG_ACK == << 0, 0 >>

TAG_POSITION == << 109, 118 >>

TAG_JUMP == << 106, 112 >>

TAG_SNEAK == << 114, 110 >>

TAG_SLOT_SELECT == << 115, 61 >>

TAG_SHOOT == << 42, 105 >>

TAG_CHAT == << 35, 42 >>

TAG_ACTOR_DROP == << 109, 107 >>

TAG_REGION_CHANGE == << 99, 104 >>

TAG_ITEM_ACQUIRE == << 99, 112 >>

TAG_ITEM_PICKUP == << 101, 101 >>

TAG_RELOAD == << 114, 108 >>

TAG_HEALTH == << 43, 43 >>

TAG_MANA == << 109, 97 >>

TAG_PS == << 112, 115 >>

TAG_STATE == << 115, 116 >>

TAG_ATTACK == << 116, 114 >>

TAG_LOADED_AMMO == << 108, 97 >>

\* The keys of PACKET_HANDLERS.
PACKET_HANDLERS ==
    { TAG_ACK, TAG_POSITION, TAG_JUMP, TAG_SNEAK, TAG_SLOT_SELECT, TAG_SHOOT,
      TAG_CHAT, TAG_ACTOR_DROP, TAG_REGION_CHANGE, TAG_ITEM_ACQUIRE,
      TAG_ITEM_PICKUP, TAG_RELOAD, TAG_HEALTH, TAG_MANA, TAG_PS, TAG_STATE,
      TAG_ATTACK, TAG_LOADED_AMMO }

\* PACKET_HANDLERS[pid](data).
handler(pid, data) ==
    CASE pid = TAG_ACK -> handle_ack(data)
      [] pid = TAG_POSITION -> handle_position(data)
      [] pid = TAG_JUMP -> handle_jump(data)
      [] pid = TAG_SNEAK -> handle_sneak(data)
      [] pid = TAG_SLOT_SELECT -> handle_slot_select(data)
      [] pid = TAG_SHOOT -> handle_shoot(data)
      [] pid = TAG_CHAT -> handle_chat(data)
      [] pid = TAG_ACTOR_DROP -> handle_actor_drop(data)
      [] pid = TAG_REGION_CHANGE -> handle_region_change(data)
      [] pid = TAG_ITEM_ACQUIRE -> handle_item_acquire(data)
      [] pid = TAG_ITEM_PICKUP -> handle_item_pickup(data)
      [] pid = TAG_RELOAD -> handle_reload(data)
      [] pid = TAG_HEALTH -> handle_health(data)
      [] pid = TAG_MANA -> handle_mana(data)
      [] pid = TAG_PS -> handle_ps(data)
      [] pid = TAG_STATE -> handle_state(data)
      [] pid = TAG_ATTACK -> handle_attack(data)
      [] pid = TAG_LOADED_AMMO -> handle_loaded_ammo(data)

\* A faulty iteration that removes both bytes of a tag it does not know (C12
\* detects it).
parse_iteration_skip_tag(data) ==
    LET pid == Slice(data, 0, 2)
    IN  IF pid \in PACKET_HANDLERS
        THEN handler(pid, SliceFrom(data, 2))
        ELSE Return(SliceFrom(data, 2))

\* One iteration of the while loop of parse, for a buffer of at least 2
\* bytes: a dispatch hit hands the buffer after the tag to the handler, a
\* miss removes the first byte.
parse_iteration(data) ==
    LET pid == Slice(data, 0, 2)
    IN  IF pid \in PACKET_HANDLERS
        THEN handler(pid, SliceFrom(data, 2))
        ELSE Return(SliceFrom(data, 1))

\* The while loop of parse: the packets put until the buffer is used up or
\* a handler raises.
RECURSIVE parse_loop(_)
parse_loop(data) ==
    IF Len(data) < 2 THEN [raised |-> FALSE, put |-> << >>]
    ELSE LET it == parse_iteration(data)
         IN  IF it.raised THEN [raised |-> TRUE, put |-> << >>]
             ELSE LET rest == parse_loop(it.data)
                  IN  [raised |-> rest.raised, put |-> it.put \o rest.put]

\* parser.parse(data, port, origin): nothing is decoded on the master port.
\* origin only selects the direction marker of the printed message.
parse(data, port) ==
    IF port = MASTER_PORT THEN [raised |-> FALSE, put |-> << >>]
    ELSE parse_loop(data)


(***************************************************************************)
(* Bounds of the model.                                                    *)
(***************************************************************************)
\* Generations a ProxyServer constructs.
MaxGen == 2

\* Connection attempts the real servers refuse.
MaxRefused == 1

\* Non-empty chunks the peers (game clients and real servers) send.
MaxChunks == 1

(***************************************************************************)
(* The state.                                                              *)
(*                                                                         *)
(* A ProxyConnection object is named <<port, generation, conn_type>>; the  *)
(* per-connection variables are functions on the objects that exist.  An   *)
(* object exists from its construction in ProxyServer.run until both       *)
(* threads of its pair have finished and the server has rebound listener   *)
(* and broker to the next pair (the pair is then unreachable).             *)
(***************************************************************************)
VARIABLES
    ports,          \* the ports run.py started a ProxyServer for
    srv_pc,         \* ProxyServer.run: the statement each server is at
    gen,            \* the generations each server has constructed
    stop_event,     \* ProxyConnection._stop_event.is_set()
    conn_event,     \* ProxyConnection._conn_event.is_set()
    retries,        \* ProxyConnection._retries
    sock,           \* ProxyConnection._sock: "None", or the socket's state:
                    \*   "fresh" (not connected yet), "open" (connected),
                    \*   "closed" (shut down, closed, or reset by the peer)
    pc,             \* ProxyConnection.run: the statement each thread is at
    data,           \* run's local `data`
    packet,         \* run's local `packet`
    stack,          \* the frames of the stop() calls each thread is in
    received,       \* history: the buffers receive() returned
    wire,           \* history: the writes made to each connection's socket
    PACKET_QUEUE,   \* helpers.PACKET_QUEUE
    refused,        \* environment: the connection attempts the real servers
                    \*   will still refuse
    chunks,         \* environment: the non-empty chunks the peers will still
                    \*   send
    p_port,         \* parse: the port argument
    p_input,        \* parse: the data argument
    p_data,         \* parse: the local `data`
    p_reads,        \* parse: the local `reads`
    p_printed,      \* parse: the unknown-tag messages printed
    p_pc            \* parse: "loop", "returned" or "raised"

connVars == << stop_event, conn_event, retries, sock >>

threadVars == << pc, data, packet, stack >>

historyVars == << received, wire >>

serverVars == << ports, srv_pc, gen >>

envVars == << refused, chunks >>

relayVars == << serverVars, connVars, threadVars, historyVars, envVars >>

parseVars == << p_port, p_input, p_data, p_reads, p_printed, p_pc >>

vars == << relayVars, PACKET_QUEUE, parseVars >>

\* The ports whose ProxyServer runs in the relay model: one game port.
ProxiedPorts == {GAME_PORT}

\* Every port run.py proxies (one game port stands for the range).
AllPorts == {MASTER_PORT, GAME_PORT}

\* Every connection object a run can construct.
AllConns == AllPorts \X (1..MaxGen) \X ConnectionType

\* The connection objects that exist.
Conns == DOMAIN pc

\* The chunks the peers send in the relay model: a loaded-ammo packet with
\* an empty weapon name and 0 shots left (it decodes and puts the reload
\* packet), and an actor-drop packet cut after one byte (its decoding
\* raises struct.error).
AmmoChunk == TAG_LOADED_AMMO \o << 0, 0 >> \o << 0, 0, 0, 0 >>

BadChunk == TAG_ACTOR_DROP \o << 1 >>

Chunks == {AmmoChunk, BadChunk}

(***************************************************************************)
(* proxy.py: ProxyConnection.                                              *)
(***************************************************************************)
conn_type(c) == c[3]

\* ProxyServer.run links the two connections of a generation to each other
\* before it starts them.
dest_conn(c) == << c[1], c[2], IF c[3] = CLIENT THEN SERVER ELSE CLIENT >>

is_running(c) == ~stop_event[c]

\* A faulty await_conn that returns at once (C1 detects it).
await_conn_skipped(c) == TRUE

\* await_conn returns once the connection event of c is set.
await_conn(c) == conn_event[c]

\* A faulty join that returns while the thread still runs (C7 detects it).
join_nowait(c) == TRUE

\* Thread.join(c) returns once the thread of c has finished.
Finished(c) == pc[c] \in {"exited", "crashed"}

join(c) == Finished(c)

\* A thread is at a statement of run (and not inside a stop() call).
At(c, where) == c \in Conns /\ pc[c] = where /\ stack[c] = << >>

\* The thread of c ends: its locals are gone.
Die(c, how) ==
    /\ pc' = [pc EXCEPT ![c] = how]
    /\ data' = [data EXCEPT ![c] = << >>]
    /\ packet' = [packet EXCEPT ![c] = << >>]
    /\ stack' = [stack EXCEPT ![c] = << >>]

Goto(c, where) == pc' = [pc EXCEPT ![c] = where]

\* A call of s.stop() by the thread of c.
StopFrame(s) == [self |-> s, at |-> "close", exc |-> FALSE, closed |-> stop_event[s]]

CallStop(c, s) == stack' = [stack EXCEPT ![c] = Append(@, StopFrame(s))]

\* open(), CLIENT: _listen binds the port and listens.
Listen(c) ==
    /\ At(c, "open")
    /\ conn_type(c) = CLIENT
    /\ Goto(c, "accept")
    /\ UNCHANGED << serverVars, connVars, data, packet, stack, historyVars,
                    PACKET_QUEUE, parseVars, envVars >>

\* _listen: sock.accept() blocks until a client connects.
Accept(c) ==
    /\ At(c, "accept")
    /\ sock' = [sock EXCEPT ![c] = "open"]
    /\ Goto(c, "set_conn")
    /\ UNCHANGED << serverVars, stop_event, conn_event, retries, data, packet,
                    stack, historyVars, PACKET_QUEUE, parseVars, envVars >>

\* open(), SERVER: _connect waits for the listener, then keeps the socket.
AwaitListener(c) ==
    /\ At(c, "open")
    /\ conn_type(c) = SERVER
    /\ await_conn(dest_conn(c))
    /\ sock' = [sock EXCEPT ![c] = "fresh"]
    /\ Goto(c, "connect")
    /\ UNCHANGED << serverVars, stop_event, conn_event, retries, data, packet,
                    stack, historyVars, PACKET_QUEUE, parseVars, envVars >>

\* retry_interval: 20 * (1 / (1 + math.e**(-self._retries / 10)) - 0.4),
\* computed in decimal fixed point: a real x is the integer x * Scale,
\* rounded towards zero after every operation.
Scale == 10000

\* math.e**(-1 / 10) = 0.9048... and math.e**(-1) = 0.3679...
Decay == 9048

DecayTen == 3679

\* math.e**(-j / 10) for j below 10, and math.e**(-k).
RECURSIVE exp_tenths(_)
exp_tenths(j) == IF j = 0 THEN Scale ELSE (exp_tenths(j - 1) * Decay) \div Scale

RECURSIVE exp_units(_)
exp_units(k) == IF k = 0 THEN Scale ELSE (exp_units(k - 1) * DecayTen) \div Scale

\* math.e**(-r / 10)
exp_neg(r) == (exp_units(r \div 10) * exp_tenths(r % 10)) \div Scale

\* A faulty interval that grows by one time unit per attempt without a
\* ceiling (C18 detects it).
interval_linear(r) == (2 + r) * Scale

\* The interval after r counted attempts.
interval(r) == 20 * ((Scale * Scale) \div (Scale + exp_neg(r)) - (4 * Scale) \div 10)

retry_interval(c) == interval(retries[c])

\* _connect: one pass of the retry loop.  connect() succeeds, is refused
\* (the except clause sleeps before the finally clause counts the attempt),
\* or fails with another OSError, which nothing catches.
Connect(c) ==
    /\ At(c, "connect")
    /\ \/ /\ sock' = [sock EXCEPT ![c] = "open"]
          /\ retries' = [retries EXCEPT ![c] = @ + 1]
          /\ Goto(c, "set_conn")
          /\ UNCHANGED << data, packet, stack >>
          /\ UNCHANGED refused
       \/ /\ refused > 0
          /\ refused' = refused - 1
          /\ Goto(c, "sleep")
          /\ UNCHANGED << sock, retries, data, packet, stack >>
       \/ /\ retries' = [retries EXCEPT ![c] = @ + 1]
          /\ Die(c, "crashed")
          /\ UNCHANGED << sock, refused >>
    /\ UNCHANGED << serverVars, stop_event, conn_event, historyVars, chunks,
                    PACKET_QUEUE, parseVars >>

\* _connect: time.sleep(self.retry_interval) returns; finally: _retries += 1.
Sleep(c) ==
    /\ At(c, "sleep")
    /\ retries' = [retries EXCEPT ![c] = @ + 1]
    /\ Goto(c, "connect")
    /\ UNCHANGED << serverVars, stop_event, conn_event, sock, data, packet,
                    stack, historyVars, PACKET_QUEUE, parseVars, envVars >>

\* open(): self._conn_event.set().
SetConn(c) ==
    /\ At(c, "set_conn")
    /\ conn_event' = [conn_event EXCEPT ![c] = TRUE]
    /\ Goto(c, "loop")
    /\ UNCHANGED << serverVars, stop_event, retries, sock, data, packet, stack,
                    historyVars, PACKET_QUEUE, parseVars, envVars >>

\* run: while self.is_running().
Loop(c) ==
    /\ At(c, "loop")
    /\ IF is_running(c)
       THEN Goto(c, "receive") /\ UNCHANGED << data, packet, stack >>
       ELSE Die(c, "exited")
    /\ UNCHANGED << serverVars, connVars, historyVars, PACKET_QUEUE, parseVars, envVars >>

\* A faulty receive that answers a reset connection with self.stop() (C22
\* detects it).
Receive_stopping(c, sent) ==
    /\ At(c, "receive")
    /\ sock[c] = "open"
    /\ \/ \E chunk \in sent :
             /\ chunks > 0
             /\ chunks' = chunks - 1
             /\ data' = [data EXCEPT ![c] = chunk]
             /\ received' = [received EXCEPT ![c] = Append(@, chunk)]
             /\ Goto(c, "send")
             /\ UNCHANGED << sock, packet, stack >>
       \/ /\ data' = [data EXCEPT ![c] = << >>]
          /\ received' = [received EXCEPT ![c] = Append(@, << >>)]
          /\ Goto(c, "send")
          /\ UNCHANGED << sock, packet, stack, chunks >>
       \/ /\ sock' = [sock EXCEPT ![c] = "closed"]
          /\ Goto(c, "loop")
          /\ CallStop(c, c)
          /\ UNCHANGED << data, packet, received, chunks >>
    /\ UNCHANGED << serverVars, stop_event, conn_event, retries, wire, refused,
                    PACKET_QUEUE, parseVars >>

\* receive() on a connected socket: the peer sent a chunk (one of `sent`),
\* closed (b''), or the connection was reset (OSError, which run does not
\* catch).
Receive(c, sent) ==
    /\ At(c, "receive")
    /\ sock[c] = "open"
    /\ \/ \E chunk \in sent :
             /\ chunks > 0
             /\ chunks' = chunks - 1
             /\ data' = [data EXCEPT ![c] = chunk]
             /\ received' = [received EXCEPT ![c] = Append(@, chunk)]
             /\ Goto(c, "send")
             /\ UNCHANGED << sock, packet, stack >>
       \/ /\ data' = [data EXCEPT ![c] = << >>]
          /\ received' = [received EXCEPT ![c] = Append(@, << >>)]
          /\ Goto(c, "send")
          /\ UNCHANGED << sock, packet, stack, chunks >>
       \/ /\ sock' = [sock EXCEPT ![c] = "closed"]
          /\ Die(c, "crashed")
          /\ UNCHANGED << received, chunks >>
    /\ UNCHANGED << serverVars, stop_event, conn_event, retries, wire, refused,
                    PACKET_QUEUE, parseVars >>

\* The relay model's peers send the chunks of Chunks.
ReceiveOpen(c) == Receive(c, Chunks)

\* receive() on a socket that is no longer connected: a recv blocked at the
\* shutdown returns b'', a recv called after the close, or on a socket the
\* peer reset, raises OSError.
ReceiveClosed(c) ==
    /\ At(c, "receive")
    /\ sock[c] = "closed"
    /\ \/ /\ data' = [data EXCEPT ![c] = << >>]
          /\ received' = [received EXCEPT ![c] = Append(@, << >>)]
          /\ Goto(c, "send")
          /\ UNCHANGED << packet, stack >>
       \/ /\ Die(c, "crashed")
          /\ UNCHANGED received
    /\ UNCHANGED << serverVars, connVars, wire, PACKET_QUEUE, parseVars, envVars >>

\* socket.sendall(bytes) on a connected socket: the write, as the peer sees it.
\* A faulty sendall that writes the bytes twice (C4 detects it).
sendall_twice(log, kind, bytes) ==
    Append(Append(log, [kind |-> kind, bytes |-> bytes]),
           [kind |-> kind, bytes |-> bytes])

sendall(log, kind, bytes) == Append(log, [kind |-> kind, bytes |-> bytes])

\* A faulty send that waits for the destination's stop event instead of its
\* connection event (C3 detects it).
await_dest_stopped(c) == stop_event[dest_conn(c)]

\* A faulty send that does not wait for the destination (C20 detects it).
await_dest_skipped(c) == TRUE

\* send: self.dest_conn.await_conn().
await_dest(c) == await_conn(dest_conn(c))

\* send(bytes): wait for the destination's connection event, write to the
\* destination's socket; on OSError call self.stop().  A destination whose
\* _sock is still None raises AttributeError, which send does not catch:
\* it ends the thread unless the call is inside the try block of the
\* injection (`caught`).
Send(c, kind, bytes, next, caught) ==
    LET d == dest_conn(c)
    IN  /\ await_dest(c)
        /\ \/ /\ sock[d] = "open"
              /\ wire' = [wire EXCEPT ![d] = sendall(@, kind, bytes)]
              /\ Goto(c, next)
              /\ UNCHANGED << sock, data, packet, stack >>
           \/ /\ sock[d] = "open"
              /\ sock' = [sock EXCEPT ![d] = "closed"]
              /\ Goto(c, next)
              /\ CallStop(c, c)
              /\ UNCHANGED << wire, data, packet >>
           \/ /\ sock[d] \in {"fresh", "closed"}
              /\ Goto(c, next)
              /\ CallStop(c, c)
              /\ UNCHANGED << sock, wire, data, packet >>
           \/ /\ sock[d] = "None"
              /\ IF caught
                 THEN Goto(c, next) /\ UNCHANGED << data, packet, stack >>
                 ELSE Die(c, "crashed")
              /\ UNCHANGED << sock, wire >>

\* run: self.send(data), then the test of data == b''.
Forward(c) ==
    /\ At(c, "send")
    /\ Send(c, "forward", data[c], IF data[c] = << >> THEN "eof" ELSE "parse", FALSE)
    /\ UNCHANGED << serverVars, stop_event, conn_event, retries, received,
                    PACKET_QUEUE, parseVars, envVars >>

\* run: data == b'': self.stop().
Eof(c) ==
    /\ At(c, "eof")
    /\ Goto(c, "inject")
    /\ CallStop(c, c)
    /\ UNCHANGED << serverVars, connVars, data, packet, historyVars,
                    PACKET_QUEUE, parseVars, envVars >>

\* A faulty run without the try / except around parse: a decode failure
\* ends the thread (C5 detects it).
Parse_uncaught(c) ==
    /\ At(c, "parse")
    /\ IF parse(data[c], c[1]).raised
       THEN /\ Die(c, "crashed")
            /\ UNCHANGED PACKET_QUEUE
       ELSE /\ PACKET_QUEUE' = PACKET_QUEUE \o parse(data[c], c[1]).put
            /\ Goto(c, "inject")
            /\ UNCHANGED << data, packet, stack >>
    /\ UNCHANGED << serverVars, connVars, historyVars, parseVars, envVars >>

\* run: importlib.reload(parser); parser.parse(data, self.port,
\* self.conn_type) inside try / except Exception: the packets the handlers
\* put stay on the queue also when a later handler raises.
Parse(c) ==
    /\ At(c, "parse")
    /\ PACKET_QUEUE' = PACKET_QUEUE \o parse(data[c], c[1]).put
    /\ Goto(c, "inject")
    /\ UNCHANGED << serverVars, connVars, data, packet, stack, historyVars,
                    parseVars, envVars >>

\* A faulty injection that takes the packet put last (C16 detects it).
Inject_last(c) ==
    /\ At(c, "inject")
    /\ IF conn_type(c) = CLIENT /\ PACKET_QUEUE # << >>
       THEN /\ packet' = [packet EXCEPT ![c] = PACKET_QUEUE[Len(PACKET_QUEUE)]]
            /\ PACKET_QUEUE' = SubSeq(PACKET_QUEUE, 1, Len(PACKET_QUEUE) - 1)
            /\ Goto(c, "send_packet")
       ELSE /\ Goto(c, "loop")
            /\ UNCHANGED << packet, PACKET_QUEUE >>
    /\ UNCHANGED << serverVars, connVars, data, stack, historyVars, parseVars, envVars >>

\* run: a CLIENT connection takes a packet with get_nowait(); queue.Empty is
\* swallowed.
Inject(c) ==
    /\ At(c, "inject")
    /\ IF conn_type(c) = CLIENT /\ PACKET_QUEUE # << >>
       THEN /\ packet' = [packet EXCEPT ![c] = Head(PACKET_QUEUE)]
            /\ PACKET_QUEUE' = Tail(PACKET_QUEUE)
            /\ Goto(c, "send_packet")
       ELSE /\ Goto(c, "loop")
            /\ UNCHANGED << packet, PACKET_QUEUE >>
    /\ UNCHANGED << serverVars, connVars, data, stack, historyVars, parseVars, envVars >>

\* A faulty injection that goes on taking packets until the queue is empty
\* (C21 detects it).
SendPacket_drain(c) ==
    /\ At(c, "send_packet")
    /\ Send(c, "inject", packet[c], "inject", TRUE)
    /\ UNCHANGED << serverVars, stop_event, conn_event, retries, received,
                    PACKET_QUEUE, parseVars, envVars >>

\* run: self.send(packet); PACKET_QUEUE.task_done().
SendPacket(c) ==
    /\ At(c, "send_packet")
    /\ Send(c, "inject", packet[c], "loop", TRUE)
    /\ UNCHANGED << serverVars, stop_event, conn_event, retries, received,
                    PACKET_QUEUE, parseVars, envVars >>

(***************************************************************************)
(* ProxyConnection.stop, run by the thread of c on the connection          *)
(* `self` of the top frame of its stack.                                   *)
(***************************************************************************)
Top(c) == stack[c][Len(stack[c])]

InStop(c, where) == c \in Conns /\ stack[c] # << >> /\ Top(c).at = where

SetTop(c, frame) == stack' = [stack EXCEPT ![c][Len(stack[c])] = frame]

\* try: self._sock.shutdown(SHUT_RDWR); self._sock.close().  A connected
\* socket is shut down and closed (or found reset by the peer: shutdown
\* raises OSError); a socket that is not connected, or no longer, raises
\* OSError; OSError is caught.  _sock = None raises AttributeError, which
\* leaves through the finally clause.
StopClose(c) ==
    /\ InStop(c, "close")
    /\ LET s == Top(c).self
       IN  \/ /\ sock[s] = "open"
              /\ sock' = [sock EXCEPT ![s] = "closed"]
              /\ SetTop(c, [Top(c) EXCEPT !.at = "set"])
           \/ /\ sock[s] \in {"fresh", "closed"}
              /\ SetTop(c, [Top(c) EXCEPT !.at = "set"])
              /\ UNCHANGED sock
           \/ /\ sock[s] = "None"
              /\ SetTop(c, [Top(c) EXCEPT !.at = "set", !.exc = TRUE])
              /\ UNCHANGED sock
    /\ UNCHANGED << serverVars, stop_event, conn_event, retries, pc, data,
                    packet, historyVars, PACKET_QUEUE, parseVars, envVars >>

\* A faulty stop that sets the stop flag and clears the connection event
\* (C8 detects it).
StopSet_clearing(c) ==
    /\ InStop(c, "set")
    /\ stop_event' = [stop_event EXCEPT ![Top(c).self] = TRUE]
    /\ conn_event' = [conn_event EXCEPT ![Top(c).self] = FALSE]
    /\ SetTop(c, [Top(c) EXCEPT !.at = "cascade"])
    /\ UNCHANGED << serverVars, retries, sock, pc, data, packet,
                    historyVars, PACKET_QUEUE, parseVars, envVars >>

\* A faulty stop that tests the partner without having set its own stop
\* flag (C23 detects it).
StopSet_forgetting(c) ==
    /\ InStop(c, "set")
    /\ SetTop(c, [Top(c) EXCEPT !.at = "cascade"])
    /\ UNCHANGED << serverVars, stop_event, conn_event, retries, sock, pc, data,
                    packet, historyVars, PACKET_QUEUE, parseVars, envVars >>

\* finally: self._stop_event.set().
StopSet(c) ==
    /\ InStop(c, "set")
    /\ stop_event' = [stop_event EXCEPT ![Top(c).self] = TRUE]
    /\ SetTop(c, [Top(c) EXCEPT !.at = "cascade"])
    /\ UNCHANGED << serverVars, conn_event, retries, sock, pc, data, packet,
                    historyVars, PACKET_QUEUE, parseVars, envVars >>

\* A faulty stop that never stops the partner (C2 detects it).
cascade_never(s) == FALSE

\* A faulty stop that stops the partner whether it runs or not (C9 detects
\* it).
cascade_always(s) == TRUE

\* finally: if self.dest_conn.is_running(): ...
cascade(s) == is_running(dest_conn(s))

\* finally: if self.dest_conn.is_running(): self.dest_conn.stop().
StopCascade(c) ==
    /\ InStop(c, "cascade")
    /\ LET s == Top(c).self
       IN  IF cascade(s)
           THEN stack' = [stack EXCEPT ![c] =
                    Append(SubSeq(@, 1, Len(@) - 1), [Top(c) EXCEPT !.at = "return"])
                        \o << StopFrame(dest_conn(s)) >>]
           ELSE SetTop(c, [Top(c) EXCEPT !.at = "return"])
    /\ UNCHANGED << serverVars, connVars, pc, data, packet, historyVars,
                    PACKET_QUEUE, parseVars, envVars >>

\* stop() returns to its caller, or leaves with the AttributeError: that
\* passes through the callers' finally clauses and through send, and ends
\* the thread unless the call came from the try block of the injection.
StopReturn(c) ==
    /\ InStop(c, "return")
    /\ IF ~Top(c).exc
       THEN /\ stack' = [stack EXCEPT ![c] = SubSeq(@, 1, Len(@) - 1)]
            /\ UNCHANGED << pc, data, packet >>
       ELSE IF pc[c] = "loop"
            THEN /\ stack' = [stack EXCEPT ![c] = << >>]
                 /\ UNCHANGED << pc, data, packet >>
            ELSE Die(c, "crashed")
    /\ UNCHANGED << serverVars, connVars, historyVars, PACKET_QUEUE, parseVars, envVars >>

(***************************************************************************)
(* proxy.py: ProxyServer.run.  The server's own stop event is never set,   *)
(* so `while self.is_running()` always enters the loop.                    *)
(***************************************************************************)
Listener(p) == << p, gen[p], CLIENT >>

Broker(p) == << p, gen[p], SERVER >>

\* Pairs of port p no thread and no variable of the server refers to any
\* more once listener and broker are rebound.
Unreachable(p) == { c \in Conns : c[1] = p /\ Finished(c) /\ Finished(dest_conn(c)) }

\* listener = ProxyConnection(..., CLIENT); broker = ProxyConnection(...,
\* SERVER); broker.dest_conn = listener; listener.dest_conn = broker.
Construct(p) ==
    /\ p \in ports
    /\ srv_pc[p] = "construct"
    /\ gen[p] < MaxGen
    /\ LET g == gen[p] + 1
           new == { << p, g, CLIENT >>, << p, g, SERVER >> }
           all == (Conns \ Unreachable(p)) \cup new
           New(f, init) == [c \in all |-> IF c \in new THEN init ELSE f[c]]
       IN  /\ gen' = [gen EXCEPT ![p] = g]
           /\ stop_event' = New(stop_event, FALSE)
           /\ conn_event' = New(conn_event, FALSE)
           /\ retries' = New(retries, 0)
           /\ sock' = New(sock, "None")
           /\ pc' = New(pc, "initial")
           /\ data' = New(data, << >>)
           /\ packet' = New(packet, << >>)
           /\ stack' = New(stack, << >>)
           /\ received' = New(received, << >>)
           /\ wire' = New(wire, << >>)
    /\ srv_pc' = [srv_pc EXCEPT ![p] = "start_listener"]
    /\ UNCHANGED << ports, PACKET_QUEUE, parseVars, envVars >>

\* listener.start()
StartListener(p) ==
    /\ p \in ports
    /\ srv_pc[p] = "start_listener"
    /\ pc' = [pc EXCEPT ![Listener(p)] = "open"]
    /\ srv_pc' = [srv_pc EXCEPT ![p] = "start_broker"]
    /\ UNCHANGED << ports, gen, connVars, data, packet, stack, historyVars,
                    PACKET_QUEUE, parseVars, envVars >>

\* broker.start()
StartBroker(p) ==
    /\ p \in ports
    /\ srv_pc[p] = "start_broker"
    /\ pc' = [pc EXCEPT ![Broker(p)] = "open"]
    /\ srv_pc' = [srv_pc EXCEPT ![p] = "join_listener"]
    /\ UNCHANGED << ports, gen, connVars, data, packet, stack, historyVars,
                    PACKET_QUEUE, parseVars, envVars >>

\* listener.join()
JoinListener(p) ==
    /\ p \in ports
    /\ srv_pc[p] = "join_listener"
    /\ join(Listener(p))
    /\ srv_pc' = [srv_pc EXCEPT ![p] = "join_broker"]
    /\ UNCHANGED << ports, gen, connVars, threadVars, historyVars,
                    PACKET_QUEUE, parseVars, envVars >>

\* broker.join(), and back to the head of the loop.
JoinBroker(p) ==
    /\ p \in ports
    /\ srv_pc[p] = "join_broker"
    /\ join(Broker(p))
    /\ srv_pc' = [srv_pc EXCEPT ![p] = "construct"]
    /\ UNCHANGED << ports, gen, connVars, threadVars, historyVars,
                    PACKET_QUEUE, parseVars, envVars >>

(***************************************************************************)
(* The proxy as a whole: run.py starts one ProxyServer per port; here the  *)
(* proxy of one game port.                                                 *)
(***************************************************************************)
NoConns == [c \in {} |-> 0]

ParseIdle ==
    /\ p_port = GAME_PORT
    /\ p_input = << >>
    /\ p_data = << >>
    /\ p_reads = 0
    /\ p_printed = 0
    /\ p_pc = "returned"

Init ==
    /\ ports = ProxiedPorts
    /\ srv_pc = [p \in ports |-> "construct"]
    /\ gen = [p \in ports |-> 0]
    /\ stop_event = NoConns
    /\ conn_event = NoConns
    /\ retries = NoConns
    /\ sock = NoConns
    /\ pc = NoConns
    /\ data = NoConns
    /\ packet = NoConns
    /\ stack = NoConns
    /\ received = NoConns
    /\ wire = NoConns
    /\ PACKET_QUEUE = << >>
    /\ refused = MaxRefused
    /\ chunks = MaxChunks
    /\ ParseIdle

\* The steps of a connection's thread that return without waiting on a peer.
Internal(c) ==
    \/ Listen(c)
    \/ AwaitListener(c)
    \/ Connect(c)
    \/ Sleep(c)
    \/ SetConn(c)
    \/ Loop(c)
    \/ ReceiveClosed(c)
    \/ Forward(c)
    \/ Eof(c)
    \/ Parse(c)
    \/ Inject(c)
    \/ SendPacket(c)
    \/ StopClose(c)
    \/ StopSet(c)
    \/ StopCascade(c)
    \/ StopReturn(c)

\* The steps that wait for a peer: a client that connects, bytes that arrive.
External(c) ==
    \/ Accept(c)
    \/ ReceiveOpen(c)

ServerStep(p) ==
    \/ Construct(p)
    \/ StartListener(p)
    \/ StartBroker(p)
    \/ JoinListener(p)
    \/ JoinBroker(p)

Next ==
    \/ \E p \in AllPorts : ServerStep(p)
    \/ \E c \in AllConns : Internal(c)
    \/ \E c \in AllConns : External(c)

Spec == Init /\ [][Next]_vars

\* Every thread that can take a step takes one: the interpreter schedules
\* every runnable thread, and connect, sleep, sendall and a recv on a closed
\* socket return.  Nothing makes a client connect or a peer send.
FairSpec ==
    /\ Spec
    /\ \A p \in AllPorts : WF_vars(ServerStep(p))
    /\ \A c \in AllConns : WF_vars(Internal(c))

(***************************************************************************)
(* parser.py: parse, one call at a time.  The decoder is run on its own,   *)
(* on a buffer drawn from ParseInputs, one iteration of the while loop per *)
(* step; no ProxyServer runs.                                              *)
(***************************************************************************)
\* An actor-drop packet as handle_actor_drop reads it: the tag, the item id
\* (4 bytes), 4 unknown bytes, a byte that is not read, the length of the
\* name (2 bytes, the first of which is also read as `unknown2`), the name
\* and the three floats of the position.
ActorDrop(id, name, xyz) ==
    TAG_ACTOR_DROP \o id \o << 0, 0, 0, 0 >> \o << 0 >>
        \o pack_le(2, Len(name)) \o name \o xyz

\* Item ids: 1, 256, 0x12345678 and 0x7fffffff, as they are on the wire.
ItemIds ==
    { << 1, 0, 0, 0 >>, << 0, 1, 0, 0 >>, << 120, 86, 52, 18 >>,
      << 255, 255, 255, 127 >> }

\* Names: "Drop", "xDrop", "Dropx", "DropDrop", "drop", "Dro", "Bear",
\* "Dröp", the empty name and a byte that is not UTF-8.
ItemNames ==
    { << 68, 114, 111, 112 >>,
      << 120, 68, 114, 111, 112 >>,
      << 68, 114, 111, 112, 120 >>,
      << 68, 114, 111, 112, 68, 114, 111, 112 >>,
      << 100, 114, 111, 112 >>,
      << 68, 114, 111 >>,
      << 66, 101, 97, 114 >>,
      << 68, 114, 195, 182, 112 >>,
      << >>,
      << 255 >> }

\* The position: three floats, or a buffer that ends one byte early.
Positions ==
    { << 0, 0, 128, 63, 0, 0, 0, 64, 0, 0, 64, 64 >>,
      << 0, 0, 128, 63, 0, 0, 0, 64, 0, 0, 64 >> }

\* What follows the packet in the chunk: nothing, two bytes no handler is
\* registered for, or a jump packet.
Trailers == { << >>, << 7, 7 >>, TAG_JUMP \o << 1 >> }

ActorDropInputs ==
    { ActorDrop(id, name, xyz) \o rest :
        id \in ItemIds, name \in ItemNames, xyz \in Positions, rest \in Trailers }

\* A loaded-ammo packet as handle_loaded_ammo reads it: the tag, the length
\* of the weapon name (2 bytes), the name and the loaded count (4 bytes).
LoadedAmmo(name, count) ==
    TAG_LOADED_AMMO \o pack_le(2, Len(name)) \o name \o count

\* Weapon names: "", "AK", "Dröp" and a byte that is not UTF-8.
WeaponNames == { << >>, << 65, 75 >>, << 68, 114, 195, 182, 112 >>, << 255 >> }

\* Loaded counts 0, 1, 256, 65536, 2^24 and 2^31 - 1 as they are on the
\* wire, and a count cut after 3 bytes.
AmmoCounts ==
    { << 0, 0, 0, 0 >>, << 1, 0, 0, 0 >>, << 0, 1, 0, 0 >>, << 0, 0, 1, 0 >>,
      << 0, 0, 0, 1 >>, << 255, 255, 255, 127 >>, << 0, 0, 0 >> }

LoadedAmmoInputs ==
    { LoadedAmmo(name, count) \o rest :
        name \in WeaponNames, count \in AmmoCounts, rest \in Trailers }

\* The packets whose handlers read a fixed number of bytes, as pairs of tag
\* and payload: ack (nothing), position (three floats and 8 more bytes),
\* jump, sneak, slot select (1 byte each), item pickup (an item id), health
\* (actor id and hp), mana (2 bytes) and ps (28 bytes).
FixedPackets ==
    { << TAG_ACK, << >> >>,
      << TAG_POSITION,
         << 0, 0, 128, 63, 0, 0, 0, 64, 0, 0, 64, 64, 1, 2, 3, 4, 5, 6, 7, 8 >> >>,
      << TAG_JUMP, << 1 >> >>, << TAG_JUMP, << 0 >> >>,
      << TAG_SNEAK, << 1 >> >>, << TAG_SNEAK, << 0 >> >>,
      << TAG_SLOT_SELECT, << 3 >> >>,
      << TAG_HEALTH, << 1, 0, 0, 0, 100, 0 >> >>,
      << TAG_MANA, << 50, 0 >> >>,
      << TAG_PS,
         << 1, 2, 3, 4, 5, 6, 7, 8, 9, 10, 11, 12, 13, 14,
            15, 16, 17, 18, 19, 20, 21, 22, 23, 24, 25, 26, 27, 28 >> >> }
        \cup { << TAG_ITEM_PICKUP, id >> : id \in ItemIds }

\* What follows a packet whose length is under test: nothing, one byte, two
\* bytes no handler is registered for, a jump packet or a mana packet.
Suffixes ==
    { << >>, << 7 >>, << 7, 7 >>, TAG_JUMP \o << 1 >>, TAG_MANA \o << 50, 0 >> }

FixedInputs == { pkt[1] \o pkt[2] \o rest : pkt \in FixedPackets, rest \in Suffixes }

\* A length-prefixed text field: the length (2 bytes) and the text.
Text(name) == pack_le(2, Len(name)) \o name

\* Texts: "", "AK" and "Dröp".
Texts == { << >>, << 65, 75 >>, << 68, 114, 195, 182, 112 >> }

Floats3 == << 0, 0, 128, 63, 0, 0, 0, 64, 0, 0, 64, 64 >>

\* The packets whose handlers read length-prefixed fields, framed as the
\* handlers read them: shoot (name, direction), chat (message), actor drop,
\* region change (name), item acquire (name, amount), reload (weapon name,
\* ammo name, count), state (actor id, state), attack (attacker id, attack,
\* victim id) and loaded ammo (name, count).
VariablePackets ==
    { TAG_SHOOT \o Text(n) \o Floats3 : n \in Texts }
        \cup { TAG_CHAT \o Text(n) : n \in Texts }
        \cup { ActorDrop(<< 1, 0, 0, 0 >>, n, Floats3) : n \in Texts }
        \cup { TAG_REGION_CHANGE \o Text(n) : n \in Texts }
        \cup { TAG_ITEM_ACQUIRE \o Text(n) \o << 5, 0, 0, 0 >> : n \in Texts }
        \cup { TAG_RELOAD \o Text(n) \o Text(m) \o << 30, 0, 0, 0 >> :
                 n \in Texts, m \in Texts }
        \cup { TAG_STATE \o << 2, 0, 0, 0 >> \o Text(n) : n \in Texts }
        \cup { TAG_ATTACK \o << 2, 0, 0, 0 >> \o Text(n) \o << 3, 0, 0, 0 >> :
                 n \in Texts }
        \cup { LoadedAmmo(n, << 6, 0, 0, 0 >>) : n \in Texts }

VariableInputs == { pkt \o rest : pkt \in VariablePackets, rest \in Suffixes }

\* Buffers that start with 2 bytes no handler is registered for: two, three
\* and four such bytes, and one such byte before a jump packet.
MissInputs ==
    { << 7, 7 >>, << 7, 7, 7 >>, << 7, 8, 9, 7 >>, << 7 >> \o TAG_JUMP \o << 1 >>,
      << 7, 7 >> \o TAG_JUMP \o << 1 >> \o << 7, 7 >> }

\* Buffers whose handlers take no payload: three ack packets in a row, an
\* ack packet before one byte, and reload packets whose weapon name or ammo
\* name is not UTF-8 (handle_reload then returns its buffer as it got it),
\* alone or before a jump packet or another such reload packet.
BadReload == TAG_RELOAD \o Text(<< 255 >>)

NoPayloadInputs ==
    { TAG_ACK \o TAG_ACK \o TAG_ACK,
      TAG_ACK \o << 7 >>,
      BadReload,
      BadReload \o TAG_JUMP \o << 1 >>,
      BadReload \o BadReload,
      TAG_RELOAD \o Text(<< 65, 75 >>) \o Text(<< 255 >>) \o << 30, 0, 0, 0 >> }

ParseInputs ==
    ActorDropInputs \cup LoadedAmmoInputs \cup FixedInputs \cup VariableInputs
        \cup MissInputs \cup NoPayloadInputs

\* The relay is absent: no server, no connection object.
NoRelay ==
    /\ ports = {}
    /\ srv_pc = NoConns
    /\ gen = NoConns
    /\ stop_event = NoConns
    /\ conn_event = NoConns
    /\ retries = NoConns
    /\ sock = NoConns
    /\ pc = NoConns
    /\ data = NoConns
    /\ packet = NoConns
    /\ stack = NoConns
    /\ received = NoConns
    /\ wire = NoConns
    /\ refused = 0
    /\ chunks = 0

\* parse(data, port, origin) has been called.
ParseInit ==
    /\ NoRelay
    /\ PACKET_QUEUE = << >>
    /\ p_port \in AllPorts
    /\ p_input \in ParseInputs
    /\ p_data = p_input
    /\ p_reads = 0
    /\ p_printed = 0
    /\ p_pc = "called"

\* if port == helpers.MASTER_PORT: return; reads = 0.
ParseEnter ==
    /\ p_pc = "called"
    /\ p_pc' = IF p_port = MASTER_PORT THEN "returned" ELSE "while"
    /\ UNCHANGED << relayVars, PACKET_QUEUE, p_port, p_input, p_data, p_reads,
                    p_printed >>

\* while len(data) >= 2, a tag with a handler: data = handler(data[2:]).  An
\* exception of the handler leaves parse.
ParseHandler ==
    /\ p_pc = "while"
    /\ Len(p_data) >= 2
    /\ Slice(p_data, 0, 2) \in PACKET_HANDLERS
    /\ LET it == parse_iteration(p_data)
       IN  /\ p_reads' = p_reads + 1
           /\ PACKET_QUEUE' = PACKET_QUEUE \o it.put
           /\ IF it.raised
              THEN p_pc' = "raised" /\ UNCHANGED p_data
              ELSE p_data' = it.data /\ UNCHANGED p_pc
    /\ UNCHANGED << relayVars, p_port, p_input, p_printed >>

\* while len(data) >= 2, a tag without a handler: the buffer is printed if
\* reads <= 1, and data = data[1:].
ParseSlide ==
    /\ p_pc = "while"
    /\ Len(p_data) >= 2
    /\ Slice(p_data, 0, 2) \notin PACKET_HANDLERS
    /\ p_reads' = p_reads + 1
    /\ p_printed' = IF p_reads' <= 1 THEN p_printed + 1 ELSE p_printed
    /\ p_data' = parse_iteration(p_data).data
    /\ UNCHANGED << relayVars, PACKET_QUEUE, p_port, p_input, p_pc >>

\* len(data) < 2: the loop ends and parse returns.
ParseReturn ==
    /\ p_pc = "while"
    /\ Len(p_data) < 2
    /\ p_pc' = "returned"
    /\ UNCHANGED << relayVars, PACKET_QUEUE, p_port, p_input, p_data, p_reads,
                    p_printed >>

ParseNext ==
    \/ ParseEnter
    \/ ParseHandler
    \/ ParseSlide
    \/ ParseReturn

ParseSpec == ParseInit /\ [][ParseNext]_vars

(***************************************************************************)
(* run.py: the proxies of the master port and of a game port side by side, *)
(* from the moment both pairs relay: each Listener accepted its client,    *)
(* each Dialer connected at its first attempt, every thread is at the head *)
(* of run's loop and both servers wait in listener.join().  The peers send *)
(* MaxPortChunks chunks in all and keep their connections open: no recv    *)
(* returns b'' and no recv or sendall raises, so no pair is stopped (Spec  *)
(* follows the stopping of a pair).                                        *)
(***************************************************************************)
\* Non-empty chunks the peers of the two ports send.
MaxPortChunks == 3

\* An actor-drop packet of item 1 named "Drop": it decodes and puts the
\* pickup packet of item 1.
DropChunk == ActorDrop(<< 1, 0, 0, 0 >>, << 68, 114, 111, 112 >>, Floats3)

\* The chunks the peers of the two ports send: the loaded-ammo packet, the
\* actor-drop packet, and both in one chunk.
PortChunks == {AmmoChunk, DropChunk, DropChunk \o AmmoChunk}

PortConns == AllPorts \X {1} \X ConnectionType

PortsInit ==
    /\ ports = AllPorts
    /\ srv_pc = [p \in AllPorts |-> "join_listener"]
    /\ gen = [p \in AllPorts |-> 1]
    /\ stop_event = [c \in PortConns |-> FALSE]
    /\ conn_event = [c \in PortConns |-> TRUE]
    /\ retries = [c \in PortConns |-> IF c[3] = SERVER THEN 1 ELSE 0]
    /\ sock = [c \in PortConns |-> "open"]
    /\ pc = [c \in PortConns |-> "loop"]
    /\ data = [c \in PortConns |-> << >>]
    /\ packet = [c \in PortConns |-> << >>]
    /\ stack = [c \in PortConns |-> << >>]
    /\ received = [c \in PortConns |-> << >>]
    /\ wire = [c \in PortConns |-> << >>]
    /\ PACKET_QUEUE = << >>
    /\ refused = 0
    /\ chunks = MaxPortChunks
    /\ ParseIdle

\* receive() returns a chunk a peer sent.
PortsReceive(c) ==
    /\ Receive(c, PortChunks)
    /\ data'[c] # << >>
    /\ pc'[c] = "send"

\* send(data) of the received chunk: sendall returns.
PortsForward(c) == Forward(c) /\ sock' = sock /\ stack' = stack

\* send(packet) of the packet taken from the queue: sendall returns.
PortsSendPacket(c) == SendPacket(c) /\ sock' = sock /\ stack' = stack

PortsNext ==
    \E c \in PortConns :
        \/ Loop(c)
        \/ PortsReceive(c)
        \/ PortsForward(c)
        \/ Parse(c)
        \/ Inject(c)
        \/ PortsSendPacket(c)

PortsSpec == PortsInit /\ [][PortsNext]_vars

(***************************************************************************)
(* _connect against a real server that refuses: the proxy of the game port *)
(* from the moment its Listener relays and its Dialer enters the retry     *)
(* loop with a fresh socket.  The server refuses MaxRetries attempts in    *)
(* all.  The Dialer is followed until it relays or its thread ends.        *)
(***************************************************************************)
\* Connection attempts the real server refuses while the Dialer dials.
MaxRetries == 90

DialConns == {GAME_PORT} \X {1} \X ConnectionType

BackoffInit ==
    /\ ports = ProxiedPorts
    /\ srv_pc = [p \in ProxiedPorts |-> "join_listener"]
    /\ gen = [p \in ProxiedPorts |-> 1]
    /\ stop_event = [c \in DialConns |-> FALSE]
    /\ conn_event = [c \in DialConns |-> c[3] = CLIENT]
    /\ retries = [c \in DialConns |-> 0]
    /\ sock = [c \in DialConns |-> IF c[3] = CLIENT THEN "open" ELSE "fresh"]
    /\ pc = [c \in DialConns |-> IF c[3] = CLIENT THEN "loop" ELSE "connect"]
    /\ data = [c \in DialConns |-> << >>]
    /\ packet = [c \in DialConns |-> << >>]
    /\ stack = [c \in DialConns |-> << >>]
    /\ received = [c \in DialConns |-> << >>]
    /\ wire = [c \in DialConns |-> << >>]
    /\ PACKET_QUEUE = << >>
    /\ refused = MaxRetries
    /\ chunks = 0
    /\ ParseIdle

BackoffNext ==
    \E c \in DialConns :
        \/ Connect(c)
        \/ Sleep(c)
        \/ SetConn(c)
        \/ Loop(c)

BackoffSpec == BackoffInit /\ [][BackoffNext]_vars

(***************************************************************************)
(* Properties of the relay.                                                *)
(***************************************************************************)
\* The lifecycle states of a connection.
Relaying(c) == conn_event[c] /\ ~stop_event[c]

Closed(c) == stop_event[c]

IsPrefix(s, t) == Len(s) <= Len(t) /\ SubSeq(t, 1, Len(s)) = s

Bytes(log) == [i \in 1..Len(log) |-> log[i].bytes]

\* The chunks the forwarding of c wrote to its partner's socket.
Forwarded(c) ==
    Bytes(SelectSeq(wire[dest_conn(c)], LAMBDA w : w.kind = "forward"))

\* The packets the injection of c wrote to its partner's socket.
Injected(c) ==
    Bytes(SelectSeq(wire[dest_conn(c)], LAMBDA w : w.kind = "inject"))

\* C1: a Dialer (SERVER) connection that has taken its socket, is in the
\* connect loop or has counted a connect attempt has a Listener whose
\* connection event is set: no connect attempt is made before the paired
\* Listener accepted a client and reached Relaying.
C1_DialerWaitsForListener ==
    \A c \in Conns :
        (/\ conn_type(c) = SERVER
         /\ (pc[c] \in {"connect", "sleep"} \/ retries[c] > 0 \/ sock[c] # "None"))
        => conn_event[dest_conn(c)]

\* A Dialer has made a connect attempt that was refused.
C1_Witness ==
    \E c \in Conns : conn_type(c) = SERVER /\ pc[c] = "sleep" /\ retries[c] = 0

\* C2: when a call of stop() is about to return (its frame is the top of the
\* thread's stack and at its return), the stop flags of the connection it was
\* called on and of its partner are both set.
C2_StopClosesBoth ==
    \A c \in Conns :
        (stack[c] # << >> /\ Top(c).at = "return")
        => (Closed(Top(c).self) /\ Closed(dest_conn(Top(c).self)))

\* A stop() call that cascaded from the partner returns: the thread of c is
\* in the nested call on its partner.
C2_Witness ==
    \E c \in Conns :
        /\ Len(stack[c]) = 2
        /\ Top(c).at = "return"
        /\ Top(c).self = dest_conn(c)

\* The Listener of generation g of port p has just read zero bytes.
ZeroRead(p, g) ==
    LET c == << p, g, CLIENT >>
    IN  IF c \in Conns
        THEN pc[c] = "send" /\ data[c] = << >> /\ stack[c] = << >>
        ELSE FALSE

\* The same, and the paired Dialer has connected.
ZeroReadConnected(p, g) ==
    IF ZeroRead(p, g) THEN conn_event[<< p, g, SERVER >>] ELSE FALSE

\* Both connections of generation g are Closed and both threads have ended.
PairDone(p, g) ==
    LET c == << p, g, CLIENT >>
        d == << p, g, SERVER >>
    IN  IF c \in Conns
        THEN Closed(c) /\ Closed(d) /\ Finished(c) /\ Finished(d)
        ELSE FALSE

\* The server has started generation g + 1 and its Listener has bound the port.
NextGenerationListens(p, g) ==
    LET c == << p, g + 1, CLIENT >>
    IN  IF p \in ports /\ c \in Conns
        THEN gen[p] > g /\ pc[c] = "accept"
        ELSE FALSE

DecodeFails(c) == At(c, "parse") /\ parse(data[c], c[1]).raised

\* C5: the step in which a decode fails changes no stop flag and no
\* connection event, leaves the thread in the run loop (at the injection,
\* from where it goes on to the next receive), and comes after the chunk was
\* forwarded (or the forwarding failed and stopped the connection).
C5_DecodeFailureKeepsRelaying ==
    [][\A c \in AllConns :
          (DecodeFails(c) /\ pc'[c] # "parse")
          => /\ stop_event' = stop_event
             /\ conn_event' = conn_event
             /\ pc'[c] = "inject"
             /\ stack'[c] = << >>
             /\ (Forwarded(c) = received[c] \/ Closed(c))]_vars

\* A connection whose decode failed is still Relaying and back at the
\* injection step of its loop.
C5_Witness ==
    \E c \in Conns :
        /\ At(c, "inject")
        /\ data[c] = BadChunk
        /\ parse(data[c], c[1]).raised
        /\ Relaying(c)
        /\ Forwarded(c) = received[c]

\* C6 as stated: once the thread of a connection that reached Relaying has
\* ended, its partner is not left relaying, waiting in receive on a
\* connected socket with its stop flag unset.
C6_NoPartnerLeftRunning ==
    \A c \in Conns :
        (Finished(c) /\ conn_event[c])
        => ~(/\ At(dest_conn(c), "receive")
             /\ is_running(dest_conn(c))
             /\ sock[dest_conn(c)] = "open")

\* C7: every connection whose thread has not ended belongs to the current
\* generation of its port: a server constructs generation n + 1 only after
\* both threads of generation n have ended.
C7_GenerationsAreSequential ==
    \A c \in Conns : c[2] < gen[c[1]] => Finished(c)

\* The Listener of a second generation has bound the port.
C7_Witness ==
    \E p \in ports : gen[p] = 2 /\ pc[Listener(p)] = "accept"

\* C8: no connection is Closed without having been Relaying, and a set
\* connection event or stop flag of a connection is never cleared.
C8_LifecycleMovesForward ==
    /\ [](\A c \in Conns : stop_event[c] => conn_event[c])
    /\ [][\A c \in Conns :
             c \in DOMAIN pc'
             => /\ conn_event[c] => conn_event'[c]
                /\ stop_event[c] => stop_event'[c]]_vars

\* A connection went through Connecting, Relaying and Closed and its thread
\* left the run loop.
C8_Witness ==
    \E c \in Conns : conn_event[c] /\ stop_event[c] /\ pc[c] = "exited"

\* C9: a stop() call entered on a connection that was already Closed makes
\* no nested stop() call, raises nothing, and returns with both connections
\* of the pair Closed.
C9_StopIsIdempotent ==
    \A c \in Conns : \A i \in 1..Len(stack[c]) :
        stack[c][i].closed
        => /\ i = Len(stack[c])
           /\ ~stack[c][i].exc
           /\ Closed(stack[c][i].self)
           /\ (stack[c][i].at = "return" => Closed(dest_conn(stack[c][i].self)))

\* A stop() call on an already Closed connection, whose socket was already
\* closed, returns.
C9_Witness ==
    \E c \in Conns :
        /\ stack[c] # << >>
        /\ Top(c).closed
        /\ Top(c).at = "return"
        /\ sock[Top(c).self] = "closed"

\* The thread of c takes a packet from the queue in this step.
Pops(c) == At(c, "inject") /\ pc'[c] = "send_packet"

\* C15 as stated: whenever the queue loses a packet, a Listener (CLIENT)
\* connection that is Relaying took it; no step of a Dialer and no step of
\* a Closed connection takes one.
C15_OnlyRelayingListenerPops ==
    [][/\ Len(PACKET_QUEUE') < Len(PACKET_QUEUE)
          => \E c \in Conns : Pops(c) /\ conn_type(c) = CLIENT /\ Relaying(c)
       /\ \A c \in Conns :
             Pops(c) => (conn_type(c) = CLIENT /\ Relaying(c))]_vars

\* The same without the Closed connections: only a Listener takes packets.
OnlyListenerPops ==
    [][/\ Len(PACKET_QUEUE') < Len(PACKET_QUEUE)
          => \E c \in Conns : Pops(c) /\ conn_type(c) = CLIENT
       /\ \A c \in Conns : Pops(c) => conn_type(c) = CLIENT]_vars

\* The thread of c is at a call of send, with the bytes it passes.
Sending(c) == At(c, "send") \/ At(c, "send_packet")

SentWrite(c) ==
    IF pc[c] = "send"
    THEN [kind |-> "forward", bytes |-> data[c]]
    ELSE [kind |-> "inject", bytes |-> packet[c]]

\* C20: a socket is written only by the send of its partner, after the
\* socket's connection reached Relaying; a step of send leaves the sender's
\* own socket alone and either appends its bytes to the partner's socket or
\* enters stop() with the thread alive.
C20_SendWritesToPartner ==
    [][/\ \A d \in Conns \cap DOMAIN wire' :
             wire'[d] # wire[d]
             => /\ Sending(dest_conn(d))
                /\ conn_event[d]
                /\ wire'[d] = Append(wire[d], SentWrite(dest_conn(d)))
       /\ \A c \in Conns :
             (Sending(c) /\ pc'[c] # pc[c])
             => /\ conn_event[dest_conn(c)]
                /\ wire'[c] = wire[c]
                /\ \/ wire'[dest_conn(c)] = Append(wire[dest_conn(c)], SentWrite(c))
                   \/ /\ wire'[dest_conn(c)] = wire[dest_conn(c)]
                      /\ pc'[c] # "crashed"
                      /\ stack'[c] # << >>
                      /\ stack'[c][1].self = c]_vars

\* A send of a received chunk failed: nothing was written and the sender is
\* in stop(), at the statement after the send.
C20_Witness ==
    \E c \in Conns :
        /\ pc[c] = "parse"
        /\ stack[c] # << >>
        /\ stack[c][1].self = c
        /\ data[c] # << >>
        /\ Forwarded(c) # received[c]
        /\ wire[c] # << >>

\* The thread of c leaves its call of parse in this step.
Pushes(c) == At(c, "parse") /\ pc'[c] = "inject"

\* The thread of c finds the queue empty in its injection block.
PopsNothing(c) == At(c, "inject") /\ pc'[c] # "inject" /\ PACKET_QUEUE = << >>

\* C16: the queue changes in two ways only.  A decoding thread appends the
\* packets its handlers put, in their order, behind the packets queued; or
\* exactly one Listener takes the packet at the head, and only that one
\* leaves the queue.  Nothing else adds, removes, reorders or merges
\* packets.  A thread in the injection block always has a step (the pop
\* does not wait), and when the queue is empty that step takes it to the
\* head of the loop with no stop flag set and no call of stop().
C16_QueueIsLosslessFifo ==
    /\ [](\A c \in Conns : At(c, "inject") => ENABLED Inject(c))
    /\ [][/\ \/ /\ PACKET_QUEUE' = PACKET_QUEUE
                /\ \A c \in Conns : ~Pops(c)
                /\ \A c \in Conns : Pushes(c) => parse(data[c], c[1]).put = << >>
             \/ /\ PACKET_QUEUE' # PACKET_QUEUE
                /\ \A c \in Conns : ~Pops(c)
                /\ \E c \in Conns :
                      /\ Pushes(c)
                      /\ PACKET_QUEUE' = PACKET_QUEUE \o parse(data[c], c[1]).put
                /\ packet' = packet
             \/ /\ PACKET_QUEUE # << >>
                /\ PACKET_QUEUE' = Tail(PACKET_QUEUE)
                /\ \E c \in Conns :
                      /\ Pops(c)
                      /\ conn_type(c) = CLIENT
                      /\ packet' = [packet EXCEPT ![c] = Head(PACKET_QUEUE)]
          /\ \A c \in Conns :
                PopsNothing(c)
                => /\ pc'[c] = "loop"
                   /\ stack'[c] = << >>
                   /\ stop_event' = stop_event
                   /\ PACKET_QUEUE' = << >>]_vars

\* The Listeners of both ports hold different packets they took from the
\* queue, which still holds a packet.
C16_Witness ==
    /\ PACKET_QUEUE # << >>
    /\ \E c, d \in Conns :
          /\ conn_type(c) = CLIENT /\ conn_type(d) = CLIENT
          /\ c[1] # d[1]
          /\ pc[c] = "send_packet" /\ pc[d] = "send_packet"
          /\ packet[c] # packet[d]

\* The packets the decoding of the traffic of port p puts: those of the
\* chunks the two connections of p received.
PacketsOfPort(p) ==
    UNION { UNION { { parse(received[c][i], p).put[j] :
                        j \in 1..Len(parse(received[c][i], p).put) } :
                    i \in 1..Len(received[c]) } :
            c \in { k \in Conns : k[1] = p } }

\* The writes made to the socket that is connected to the real server of
\* port p: the socket of the Dialer (SERVER) connections of p.
ServerWrites(c) == conn_type(c) = SERVER

\* C17 as stated: every write to the real server of a port is a chunk
\* received from that port's client or an injected packet that the decoding
\* of that port's traffic put; the traffic of the master port puts no
\* packet and no injected packet is written to the master server.
C17_PortsAreIndependent ==
    /\ PacketsOfPort(MASTER_PORT) = {}
    /\ \A c \in Conns :
          ServerWrites(c)
          => \A i \in 1..Len(wire[c]) :
                \/ /\ wire[c][i].kind = "forward"
                   /\ \E k \in 1..Len(received[dest_conn(c)]) :
                         received[dest_conn(c)][k] = wire[c][i].bytes
                \/ /\ wire[c][i].kind = "inject"
                   /\ c[1] # MASTER_PORT
                   /\ wire[c][i].bytes \in PacketsOfPort(c[1])

\* The part of C17 that holds: the traffic of the master port puts no
\* packet, and every forwarded chunk written to a real server was received
\* from the client of the same port.
ForwardedStayOnTheirPort ==
    /\ PacketsOfPort(MASTER_PORT) = {}
    /\ \A c \in Conns :
          ServerWrites(c)
          => \A i \in 1..Len(wire[c]) :
                wire[c][i].kind = "forward"
                => \E k \in 1..Len(received[dest_conn(c)]) :
                      received[dest_conn(c)][k] = wire[c][i].bytes

\* An injected packet was written to the master server.
InjectedIntoMaster ==
    \E c \in Conns :
        /\ ServerWrites(c)
        /\ c[1] = MASTER_PORT
        /\ \E i \in 1..Len(wire[c]) : wire[c][i].kind = "inject"

\* The Dialer c sleeps between two connect attempts; retry_interval(c) is
\* the time it sleeps.
Sleeping(c) == c \in Conns /\ conn_type(c) = SERVER /\ pc[c] = "sleep"

\* The interval of this sleep is at least that of every earlier sleep of
\* the same Dialer (those with fewer counted attempts).
NotBelowEarlier(c) ==
    \A r \in 0..retries[c] : interval(r) <= retry_interval(c)

\* C18 as stated: every sleep of a Dialer, the first included, lasts at
\* least as long as the sleeps before it and strictly more than 2 and
\* strictly less than 12 time units.
C18_BackoffWithinOpenInterval ==
    \A c \in Conns :
        Sleeping(c)
        => /\ NotBelowEarlier(c)
           /\ 2 * Scale < retry_interval(c)
           /\ retry_interval(c) < 12 * Scale

\* C18, amended: every sleep of a Dialer lasts at least as long as the
\* sleeps before it and at most 12 time units; it lasts strictly more than
\* 2 time units when at least one attempt has been counted, and not more
\* than 2 time units at the first sleep, which is taken with the counter
\* still at 0.
C18_BackoffNonDecreasingAtMost12 ==
    \A c \in Conns :
        Sleeping(c)
        => /\ NotBelowEarlier(c)
           /\ retry_interval(c) <= 12 * Scale
           /\ retries[c] >= 1 => 2 * Scale < retry_interval(c)
           /\ retries[c] = 0 => retry_interval(c) <= 2 * Scale

\* A Dialer sleeps after its last refused attempt, longer than it slept
\* the first time.
C18_Witness ==
    \E c \in Conns :
        /\ Sleeping(c)
        /\ refused = 0
        /\ retries[c] = MaxRetries - 1
        /\ interval(0) < retry_interval(c)

\* The thread of c is in the retry loop of _connect.
Dialing(c) == At(c, "connect") \/ At(c, "sleep")

\* C19 as stated: a step of a Dialer in the retry loop keeps it in the loop
\* (a refused attempt goes to the sleep, the sleep back to the next
\* attempt) or leaves the loop with the socket connected; the counter goes
\* up by one with every attempt, when the attempt succeeds or after the
\* sleep of a refused one, and no step lowers the counter of a connection.
C19_RefusedIsNeverFatal ==
    [][/\ \A c \in Conns :
             (Dialing(c) /\ pc'[c] # pc[c])
             => \/ /\ pc[c] = "connect" /\ pc'[c] = "sleep"
                   /\ retries'[c] = retries[c]
                \/ /\ pc[c] = "sleep" /\ pc'[c] = "connect"
                   /\ retries'[c] = retries[c] + 1
                \/ /\ pc[c] = "connect" /\ pc'[c] = "set_conn"
                   /\ sock'[c] = "open"
                   /\ retries'[c] = retries[c] + 1
       /\ \A c \in Conns \cap DOMAIN retries' : retries'[c] >= retries[c]]_vars

\* The part of C19 that holds: a refused attempt is followed by the sleep
\* and the next attempt, the counter goes up by one with every attempt (also
\* with the one that ends the thread), and no step lowers it.
RefusedIsRetried ==
    [][/\ \A c \in Conns :
             (Dialing(c) /\ pc'[c] # pc[c])
             => \/ /\ pc[c] = "connect" /\ pc'[c] = "sleep"
                   /\ retries'[c] = retries[c]
                \/ /\ pc[c] = "sleep" /\ pc'[c] = "connect"
                   /\ retries'[c] = retries[c] + 1
                \/ /\ pc[c] = "connect" /\ pc'[c] \in {"set_conn", "crashed"}
                   /\ retries'[c] = retries[c] + 1
       /\ \A c \in Conns \cap DOMAIN retries' : retries'[c] >= retries[c]]_vars

\* The thread of a Dialer ended in the retry loop: its socket never
\* connected, and its Listener relays.
DialerDiedDialing ==
    \E c \in Conns :
        /\ conn_type(c) = SERVER
        /\ pc[c] = "crashed"
        /\ sock[c] = "fresh"
        /\ Relaying(dest_conn(c))

\* The Listener l writes the packet it took to its partner's socket in this
\* step.
InjectsNow(l) ==
    /\ conn_type(l) = CLIENT
    /\ At(l, "send_packet")
    /\ wire'[dest_conn(l)] # wire[dest_conn(l)]

\* C21: when a Listener writes an injected packet, the write before it on
\* the same socket is the forwarding of the chunk this iteration received,
\* whole and not empty, and every chunk the Listener received has been
\* forwarded.  So an injected packet never follows another injected packet
\* and never comes first: each iteration injects at most one packet, after
\* its forward.
C21_OneInjectionAfterItsForward ==
    [][\A l \in Conns :
          InjectsNow(l)
          => LET w == wire[dest_conn(l)]
             IN  /\ w # << >>
                 /\ w[Len(w)] = [kind |-> "forward", bytes |-> data[l]]
                 /\ data[l] # << >>
                 /\ Forwarded(l) = received[l]]_vars

\* A Listener has started its next iteration after it injected one packet,
\* the last write on its partner's socket, and left a packet on the queue.
C21_Witness ==
    \E l \in Conns :
        /\ conn_type(l) = CLIENT
        /\ pc[l] = "receive"
        /\ PACKET_QUEUE # << >>
        /\ wire[dest_conn(l)] # << >>
        /\ wire[dest_conn(l)][Len(wire[dest_conn(l)])].kind = "inject"

\* Both connections of the pair of s have reached Relaying: their
\* connection events are set (C8: they are never cleared).
PairRelayed(s) == conn_event[s] /\ conn_event[dest_conn(s)]

\* C22: a connection whose stop flag is set belongs to a pair both of whose
\* connections have reached Relaying, and so does every connection a call
\* of stop() is running on, in any thread and at any depth; the socket of
\* such a connection is set, and no stop() call has raised.
C22_StopOnlyAfterBothRelayed ==
    /\ \A s \in Conns : stop_event[s] => PairRelayed(s)
    /\ \A c \in Conns : \A i \in 1..Len(stack[c]) :
          /\ PairRelayed(stack[c][i].self)
          /\ sock[stack[c][i].self] # "None"
          /\ ~stack[c][i].exc

\* Both threads of a pair are inside stop() at once, one of them in the
\* nested call on its partner, whose socket it is about to close.
C22_Witness ==
    \E c \in Conns :
        /\ Len(stack[c]) = 2
        /\ stack[c][2].self = dest_conn(c)
        /\ stack[c][2].at = "close"
        /\ stack[dest_conn(c)] # << >>

\* The statements a stop() call has left, at most: a call made by run or
\* send (depth 1) may still make the nested call; a nested call (depth 2)
\* may not.
StopRank(frame, depth) ==
    LET own == CASE frame.at = "close" -> 3
                 [] frame.at = "set" -> 2
                 [] frame.at = "cascade" -> 1
                 [] frame.at = "return" -> 0
    IN  IF depth = 1 /\ frame.at # "return" THEN own + 5 ELSE own + 1

RECURSIVE StackRank(_, _)
StackRank(frames, depth) ==
    IF frames = << >> THEN 0
    ELSE StopRank(Head(frames), depth) + StackRank(Tail(frames), depth + 1)

\* The thread of c, inside stop(), takes its next step.
StopStep(c) == StopClose(c) \/ StopSet(c) \/ StopCascade(c) \/ StopReturn(c)

\* C23: a thread inside stop() is at most two calls deep, the second call
\* being the one its first call made on the partner, after which the first
\* only returns; a call that tests its partner's stop flag has set its own;
\* the thread always has a next step, and every step it takes inside stop()
\* leaves it with fewer statements to go and with its thread alive, so the
\* calls return after at most 8 steps however the other thread interleaves.
C23_StopRecursionTerminates ==
    /\ [](\A c \in Conns :
             /\ Len(stack[c]) <= 2
             /\ Len(stack[c]) = 2
                => /\ stack[c][2].self = dest_conn(stack[c][1].self)
                   /\ stack[c][1].at = "return"
             /\ \A i \in 1..Len(stack[c]) :
                   stack[c][i].at \in {"cascade", "return"}
                   => stop_event[stack[c][i].self]
             /\ stack[c] # << >> => ENABLED StopStep(c))
    /\ [][\A c \in Conns :
             stack[c] # << >>
             => /\ StackRank(stack[c], 1) <= 8
                /\ pc'[c] = pc[c]
                /\ stack'[c] # stack[c]
                   => StackRank(stack'[c], 1) < StackRank(stack[c], 1)]_vars

\* Both threads of a pair called stop() at the same time: the thread of c
\* has finished the nested call on its partner, which found c already
\* stopped, while the partner's thread is in its own call.
C23_Witness ==
    \E c \in Conns :
        /\ Len(stack[c]) = 2
        /\ stack[c][2].at = "return"
        /\ stack[c][2].self = dest_conn(c)
        /\ Len(stack[dest_conn(c)]) = 1
        /\ stack[dest_conn(c)][1].self = dest_conn(c)

(***************************************************************************)
(* Properties of the decoder.                                              *)
(***************************************************************************)
\* The fields of the actor-drop packet the chunk p_input starts with.
InputId == Slice(p_input, 2, 6)

InputNameLength == LittleEndian(Slice(p_input, 11, 13))

InputName == decode(Slice(p_input, 13, 13 + InputNameLength))

\* The chunk holds the whole packet and its name is text.
InputComplete ==
    /\ Len(p_input) >= 13 + InputNameLength + 12
    /\ ~InputName.raised

\* The handler of the first packet of the chunk has run.
FirstDecoded == p_port = GAME_PORT /\ p_reads >= 1

\* C10: once an actor-drop packet is decoded, the queue holds exactly one
\* packet, 0x65 0x65 followed by the 4 bytes of the item id as they came
\* (little-endian), 6 bytes in all, if the decoded name contains "Drop", and
\* nothing if it does not; nothing is put before the packet is decoded, for
\* a packet cut short or with a name that is not text, or on the master
\* port.
C10_DropPutsOnePickup ==
    p_input \in ActorDropInputs
    => IF FirstDecoded /\ InputComplete /\ Contains(InputName.str, DropStr)
       THEN /\ PACKET_QUEUE = << << 101, 101 >> \o InputId >>
            /\ Len(PACKET_QUEUE[1]) = 6
            /\ LittleEndian(SliceFrom(PACKET_QUEUE[1], 2)) = LittleEndian(InputId)
       ELSE PACKET_QUEUE = << >>

\* parse returned from a chunk with the actor-drop of item 0x12345678 named
\* "xDrop", followed by a jump packet.
C10_Witness ==
    /\ p_pc = "returned"
    /\ p_reads = 2
    /\ p_input = ActorDrop(<< 120, 86, 52, 18 >>, << 120, 68, 114, 111, 112 >>,
                           << 0, 0, 128, 63, 0, 0, 0, 64, 0, 0, 64, 64 >>)
                     \o TAG_JUMP \o << 1 >>
    /\ PACKET_QUEUE = << << 101, 101, 120, 86, 52, 18 >> >>

\* The fields of the loaded-ammo packet the chunk p_input starts with.
AmmoNameLength == LittleEndian(Slice(p_input, 2, 4))

AmmoName == decode(Slice(p_input, 4, 4 + AmmoNameLength))

AmmoCount == Slice(p_input, 4 + AmmoNameLength, 4 + AmmoNameLength + 4)

AmmoComplete ==
    /\ Len(p_input) >= 4 + AmmoNameLength + 4
    /\ ~AmmoName.raised

\* C11: once a loaded-ammo packet is decoded, the queue holds exactly one
\* packet, the two bytes 0x72 0x6c, if the four bytes of the loaded count
\* are all zero, and nothing for any other count; nothing is put before the
\* packet is decoded, or for a packet cut short or with a name that is not
\* text.
C11_EmptyWeaponPutsOneReload ==
    p_input \in LoadedAmmoInputs
    => IF FirstDecoded /\ AmmoComplete /\ AmmoCount = << 0, 0, 0, 0 >>
       THEN PACKET_QUEUE = << << 114, 108 >> >>
       ELSE PACKET_QUEUE = << >>

\* parse returned from a chunk with the loaded-ammo packet of "AK" with 0
\* shots left, followed by a jump packet.
C11_Witness ==
    /\ p_pc = "returned"
    /\ p_reads = 2
    /\ p_input = LoadedAmmo(<< 65, 75 >>, << 0, 0, 0, 0 >>) \o TAG_JUMP \o << 1 >>
    /\ PACKET_QUEUE = << << 114, 108 >> >>

\* The loop of parse is at a buffer whose first 2 bytes are no key of the
\* dispatch table.
Miss ==
    /\ p_pc = "while"
    /\ Len(p_data) >= 2
    /\ Slice(p_data, 0, 2) \notin PACKET_HANDLERS

\* C12: a step of the loop at a miss removes exactly the first byte of the
\* buffer, and prints the unknown-tag message exactly when it is the first
\* iteration of the call; no other step prints it, so that one call prints
\* it at most once.
C12_MissSlidesOneByte ==
    /\ [](p_printed <= 1)
    /\ [][/\ Miss => /\ p_data' = Tail(p_data)
                     /\ Len(p_data') = Len(p_data) - 1
                     /\ p_printed' = p_printed + (IF p_reads = 0 THEN 1 ELSE 0)
          /\ ~Miss => p_printed' = p_printed]_vars

\* parse returned after a miss on the first iteration (printed), a second
\* miss, a jump packet and a third miss.
C12_Witness ==
    /\ p_pc = "returned"
    /\ p_input = << 7, 7 >> \o TAG_JUMP \o << 1 >> \o << 7, 7 >>
    /\ p_reads = 4
    /\ p_printed = 1
    /\ p_data = << 7 >>

\* The bytes each fixed-length packet has after its tag, as documented.
DocumentedFixed(tag) ==
    CASE tag = TAG_ACK -> 0
      [] tag = TAG_POSITION -> 20
      [] tag = TAG_JUMP -> 1
      [] tag = TAG_SNEAK -> 1
      [] tag = TAG_SLOT_SELECT -> 1
      [] tag = TAG_ITEM_PICKUP -> 4
      [] tag = TAG_HEALTH -> 6
      [] tag = TAG_MANA -> 2
      [] tag = TAG_PS -> 28

\* C13: after the handler of a correctly framed fixed-length packet has run,
\* nothing was raised and the buffer is what followed the tag and the
\* documented number of bytes, unchanged.
C13_FixedLengthsConsumed ==
    (p_port = GAME_PORT /\ p_input \in FixedInputs /\ p_reads = 1)
    => /\ p_pc # "raised"
       /\ p_data = SliceFrom(p_input, 2 + DocumentedFixed(Slice(p_input, 0, 2)))

\* The handler of a position packet has run and left the mana packet that
\* followed it.
C13_Witness ==
    /\ p_reads = 1
    /\ p_port = GAME_PORT
    /\ Slice(p_input, 0, 2) = TAG_POSITION
    /\ Len(p_input) = 2 + 20 + 4
    /\ p_data = TAG_MANA \o << 50, 0 >>

\* The u16 at offset `at` of the bytes after the tag of p_input.
U16(at) == LittleEndian(Slice(p_input, 2 + at, 2 + at + 2))

\* The bytes each variable-length packet has after its tag, as documented,
\* with the declared lengths of its strings.
DocumentedVariable ==
    LET tag == Slice(p_input, 0, 2)
    IN  CASE tag = TAG_SHOOT -> 2 + U16(0) + 12
          [] tag = TAG_CHAT -> 2 + U16(0)
          [] tag = TAG_ACTOR_DROP -> 4 + 4 + 1 + 2 + U16(9) + 12
          [] tag = TAG_REGION_CHANGE -> 2 + U16(0)
          [] tag = TAG_ITEM_ACQUIRE -> 2 + U16(0) + 4
          [] tag = TAG_RELOAD -> 2 + U16(0) + 2 + U16(2 + U16(0)) + 4
          [] tag = TAG_STATE -> 4 + 2 + U16(4)
          [] tag = TAG_ATTACK -> 4 + 2 + U16(4) + 4
          [] tag = TAG_LOADED_AMMO -> 2 + U16(0) + 4

\* The handler of a correctly framed variable-length packet has run.
VariableDecoded == p_port = GAME_PORT /\ p_input \in VariableInputs /\ p_reads = 1

\* C14 as stated: after the handler of a correctly framed variable-length
\* packet has run, nothing was raised and the buffer is what followed the
\* tag and the documented fields.
C14_VariableLengthsConsumed ==
    VariableDecoded
    => /\ p_pc # "raised"
       /\ p_data = SliceFrom(p_input, 2 + DocumentedVariable)

\* The same for every variable-length packet but shoot.
VariableLengthsConsumedButShoot ==
    (VariableDecoded /\ Slice(p_input, 0, 2) # TAG_SHOOT)
    => /\ p_pc # "raised"
       /\ p_data = SliceFrom(p_input, 2 + DocumentedVariable)

\* The handler of a shoot packet leaves the 12 bytes of the direction in the
\* buffer.
ShootLeavesDirection ==
    (VariableDecoded /\ Slice(p_input, 0, 2) = TAG_SHOOT)
    => /\ p_pc # "raised"
       /\ p_data = SliceFrom(p_input, 2 + 2 + U16(0))


\* The loop of parse is at a buffer whose first 2 bytes are a key of the
\* dispatch table.
Hit ==
    /\ p_pc = "while"
    /\ Len(p_data) >= 2
    /\ Slice(p_data, 0, 2) \in PACKET_HANDLERS

\* C24: an iteration of the loop of parse that does not raise leaves a
\* buffer at least 2 bytes shorter at a hit and exactly 1 byte shorter at a
\* miss; the loop goes on only from a buffer of at least 2 bytes and returns
\* only from a shorter one; and as long as nothing was raised the iterations
\* made plus the bytes left do not exceed the length of the buffer parse was
\* called with, so a call makes at most that many iterations.
C24_ParseTerminates ==
    /\ [](/\ p_pc # "raised" => p_reads + Len(p_data) <= Len(p_input)
          /\ p_reads <= Len(p_input))
    /\ [][p_pc = "while"
          => \/ p_pc' = "raised" /\ Hit
             \/ p_pc' = "returned" /\ Len(p_data) < 2
             \/ /\ p_pc' = "while"
                /\ p_reads' = p_reads + 1
                /\ \/ Hit /\ Len(p_data') <= Len(p_data) - 2
                   \/ Miss /\ Len(p_data') = Len(p_data) - 1]_vars

\* parse returned from two reload packets whose weapon names are not UTF-8:
\* each handler call removed only the tag, and the bytes of the names were
\* passed one by one.
C24_Witness ==
    /\ p_input = BadReload \o BadReload
    /\ p_pc = "returned"
    /\ p_reads = 7
    /\ Len(p_data) = 1

=============================================================================
